---------------------------- MODULE Spec2Model ----------------------------
(***************************************************************************)
(* graphit: FacilityHandler (app/core/facility_handler.py).                *)
(*                                                                         *)
(* A handler is constructed per request.  Its constructor either persists  *)
(* a supplied Facility, restores the pickled Facility from the dump path,  *)
(* or builds a Facility from the layout source and the parsed transport    *)
(* records and pickles it.  The model runs a bounded sequence of such      *)
(* constructions against one disk and one set of source files.             *)
(***************************************************************************)
EXTENDS Integers, Sequences, FiniteSets, TLC

\* ------------------------------------------------------------------ bounds

\* Largest number of records in the parser output.
MaxRecs == 2

\* Largest number of handler constructions in one behaviour.
MaxBuilds == 2

\* The same over the sources of the scenario, where behaviours run longer.
MaxScenarioBuilds == 3

\* ------------------------------------------------------------ Python values

\* None where a Facility is expected.
None == [py |-> "None"]

\* No exception.
NoExc == "None"

\* date_boundaries=None (and the empty list, which is as false).
NoBoundaries == <<>>

\* Line 46, `self.facility` as a condition: None is false, a Facility
\* instance is true.
IsInstance(fac) == fac # None

\* Lines 47, 95-98, 105, 116, `date_boundaries` as a condition.
Given(db) == db # NoBoundaries

\* ------------------------------------------------------------------- dates

\* The datetime values of the model in chronological order, each written in
\* the form strftime("%Y-%m-%d %X") gives it.  The first and the last are the
\* two literals of lines 96 and 98.
Canonical ==
    << "1002-01-01 00:00:00",
       "2015-05-24 00:00:00",
       "2015-05-25 00:00:00",
       "2015-05-26 00:00:00",
       "9999-01-01 00:00:00" >>

\* A second spelling strptime accepts for the same datetime (%m and %d match
\* one digit as well as two).
Unpadded ==
    << "1002-1-1 00:00:00",
       "2015-5-24 00:00:00",
       "2015-5-25 00:00:00",
       "2015-5-26 00:00:00",
       "9999-1-1 00:00:00" >>

DateTimes == 1 .. Len(Canonical)

\* datetime.strptime(s, "%Y-%m-%d %X"): the datetime s spells.
strptime(s) == CHOOSE d \in DateTimes : Canonical[d] = s \/ Unpadded[d] = s

\* datetime.strftime("%Y-%m-%d %X"): the zero-padded spelling.
strftime(d) == Canonical[d]

\* The fixed-width tail the secondary source puts after the timestamp.
Suffix == ".000"

\* The (timestamp, weight) columns the transport sources carry; the
\* timestamps lie between the two literals of lines 96 and 98.
RecordStamps ==
    { << "2015-05-24 00:00:00", "1" >>, << "2015-05-25 00:00:00", "2" >> }

RecordDates == { st[1] : st \in RecordStamps }

\* rec[2][:-4]: the raw timestamp without its last four characters.
StripLast4(raw) == CHOOSE s \in RecordDates : s \o Suffix = raw

\* int(rec[3]) on the decimal strings of the weight column.
WeightStrings == << "1", "2", "3", "4", "5", "6", "7", "8", "9", "10" >>

int(s) == CHOOSE n \in 1 .. Len(WeightStrings) : WeightStrings[n] = s

\* ---------------------------------------------------------------- Facility
\* app.dstruct.facility is not part of the sources at hand: the registry is
\* modelled from its contract.

FacilityBoundaries == << <<0, 0>>, <<100, 100>> >>

NoEdges == [p \in {} |-> 0]

\* Facility(boundaryLow, boundaryHigh): an empty registry.
Facility(low, high) ==
    [low |-> low, high |-> high, departments |-> <<>>, edges |-> NoEdges]

Centroid(label) == label \o ".centroid"

\* The node labels an edge may name: the centroid of every added department.
Nodes(fac) == { Centroid(fac.departments[i]) : i \in DOMAIN fac.departments }

\* Facility.add_department: [exc, fac].  A label already present is refused.
add_department(fac, label) ==
    IF \E i \in DOMAIN fac.departments : fac.departments[i] = label
    THEN [exc |-> "DuplicateLabel", fac |-> fac]
    ELSE [exc |-> NoExc,
          fac |-> [fac EXCEPT !.departments = Append(@, label)]]

\* Facility.add_transp_record: [exc, fac].  A self edge is refused, then an
\* endpoint that is no node; otherwise the weight is added to the edge of the
\* ordered pair, which starts at 0.
add_transp_record(fac, source, dest, weight) ==
    IF source = dest
    THEN [exc |-> "SelfEdgesNotSupported", fac |-> fac]
    ELSE IF source \notin Nodes(fac) \/ dest \notin Nodes(fac)
    THEN [exc |-> "UnknownLabel", fac |-> fac]
    ELSE LET p == <<source, dest>>
             old == IF p \in DOMAIN fac.edges THEN fac.edges[p] ELSE 0
         IN [exc |-> NoExc,
             fac |-> [fac EXCEPT !.edges =
                        [q \in DOMAIN fac.edges \cup {p} |->
                            IF q = p THEN old + weight ELSE fac.edges[q]]]]

\* ----------------------------------------------------------------- sources

\* The layout documents at facility_source_path: a well-formed one, one that
\* names a department twice, and one without the "departments" key.  A
\* department is written by its label; its boundary points, which
\* populate_facility only passes on to Department, are left out.
LayoutDocs ==
    { [departments |-> << "A", "B" >>],
      [departments |-> << "A", "B", "A" >>],
      [rooms |-> << "A", "B" >>] }

\* The label pairs of the transport records; "Z" is no department.
RecordPairs == { <<"A", "B">>, <<"B", "A">>, <<"A", "A">>, <<"Z", "B">> }

\* One entry of MPParser.parse(): (source, destination, raw timestamp, weight).
Records ==
    { << p[1], p[2], st[1] \o Suffix, st[2] >> :
        p \in RecordPairs, st \in RecordStamps }

RECURSIVE SeqsUpTo(_, _)
SeqsUpTo(S, n) ==
    IF n = 0 THEN { <<>> }
    ELSE LET shorter == SeqsUpTo(S, n - 1)
         IN shorter \cup { Append(s, x) : s \in shorter, x \in S }

\* MPParser.parse() results, in the order `for key in res` visits them.
ParserOutputs == SeqsUpTo(Records, MaxRecs)

\* conf["error_dep_list"].
ErrorLists == { {}, {"Z"}, {"A", "Z"} }

\* The scenario: departments A, B and C; two records from A to B, a self
\* edge on A, and a record from Z, which is no department and is in the error
\* list.
ScenarioLayout == [departments |-> << "A", "B", "C" >>]

ScenarioRecords ==
    << << "A", "B", "2015-05-24 00:00:00" \o Suffix, "5" >>,
       << "A", "B", "2015-05-25 00:00:00" \o Suffix, "3" >>,
       << "A", "A", "2015-05-24 00:00:00" \o Suffix, "10" >>,
       << "Z", "B", "2015-05-25 00:00:00" \o Suffix, "7" >> >>

ScenarioErrors == { "Z" }

Scenario == << ScenarioLayout, ScenarioRecords, ScenarioErrors >>

\* What the three sources may hold when the first handler is constructed.
Sources == (LayoutDocs \X ParserOutputs \X ErrorLists) \cup { Scenario }

\* The date_boundaries arguments: absent, or a (start, end) pair of strings.
DateBoundaries ==
    { NoBoundaries,
      << "2015-05-24 00:00:00", "2015-05-24 00:00:00" >>,
      << "2015-5-25 00:00:00", "2015-5-26 00:00:00" >> }

\* A Facility a caller may hand to the constructor.
SuppliedFacility ==
    [low |-> <<0, 0>>, high |-> <<100, 100>>, departments |-> << "A", "B" >>,
     edges |-> [p \in { <<"B.centroid", "A.centroid">> } |-> 2]]

FacilityInstances == { None, SuppliedFacility }

\* What the dump path holds: no file, a file a failed dump left truncated, or
\* the pickle of a Facility.
Absent == [file |-> "absent"]
Torn == [file |-> "truncated"]

\* ------------------------------------------------------------------- state

VARIABLES
    layoutDoc,      \* the document at conf["facility_source_path"]
    parserOut,      \* what MPParser(...).parse() returns
    errorList,      \* conf["error_dep_list"]
    artifact,       \* the file at conf["facility_dump_path"]
    pc,             \* position of the running constructor
    facility_instance, force_rebuild, date_boundaries,  \* its arguments
    facility,       \* self.facility
    res, idx,       \* insert_all_transp_records: parser output, loop position
    self_edges_weight, date_from, date_to,  \* its locals
    attrs,          \* self.self_edges_weight, self.date_from, self.date_to
    dumped,         \* what dump_facility returned
    wrote,          \* how the dump of this construction ended
    exc,            \* the exception that ended the constructor
    nBuilds,        \* constructions started
    layoutReads,    \* reads of the layout source by this construction
    recordReads,    \* reads of the transport sources by this construction
    phases,         \* phases this construction ran, in order
    visited,        \* what the loop did with each record so far
    artifactBefore, \* the dump path when this construction started
    lastPersisted,  \* the Facility of the last dump that succeeded
    previous,       \* what the forced build before this one ended with
    persistedBy     \* the construction whose dump last succeeded

srcVars == << layoutDoc, parserOut, errorList >>
argVars == << facility_instance, force_rebuild, date_boundaries >>
loopVars == << res, idx, self_edges_weight, date_from, date_to, visited >>
countVars == << layoutReads, recordReads >>

vars == << layoutDoc, parserOut, errorList, artifact, pc, facility_instance,
           force_rebuild, date_boundaries, facility, res, idx,
           self_edges_weight, date_from, date_to, attrs, dumped, wrote, exc,
           nBuilds,
           layoutReads, recordReads, phases, visited, artifactBefore,
           lastPersisted, previous, persistedBy >>

Unset == [unset |-> TRUE]

\* No dump has succeeded.
NoWriter == [writer |-> "none"]

\* No construction came before, or one of the two is no forced build.
NoPrevious == [previous |-> "none"]

Init ==
    /\ \E src \in Sources :
          /\ layoutDoc = src[1]
          /\ parserOut = src[2]
          /\ errorList = src[3]
    /\ artifact = Absent
    /\ pc = "idle"
    /\ facility_instance = None /\ force_rebuild = FALSE
    /\ date_boundaries = NoBoundaries
    /\ facility = None
    /\ res = <<>> /\ idx = 1
    /\ self_edges_weight = 0 /\ date_from = 0 /\ date_to = 0
    /\ attrs = Unset
    /\ dumped = <<>>
    /\ wrote = "nothing"
    /\ exc = NoExc
    /\ nBuilds = 0
    /\ layoutReads = 0 /\ recordReads = 0
    /\ phases = <<>>
    /\ visited = <<>>
    /\ artifactBefore = Absent
    /\ lastPersisted = None
    /\ previous = NoPrevious
    /\ persistedBy = NoWriter


\* ------------------------------------------------------------- constructor

\* How many constructions a behaviour over the sources at hand may hold.
BuildLimit ==
    IF << layoutDoc, parserOut, errorList >> = Scenario
    THEN MaxScenarioBuilds ELSE MaxBuilds

\* os.path.isfile(conf["facility_dump_path"]).
isfile == artifact # Absent

\* Line 47 with the `not` before force_rebuild lost.
UseDump_ForceOnly(db, fr) == ~Given(db) /\ fr /\ isfile

\* Line 47 without the test of force_rebuild.
UseDump_IgnoreForce(db, fr) == ~Given(db) /\ isfile

\* Line 47: the condition under which the pickle is restored.
UseDump(db, fr) == ~Given(db) /\ ~fr /\ isfile

\* Lines 46-60 with force_rebuild tested before the instance.
Branch_ForceFirst(inst, fr, db) ==
    IF fr THEN "populate"
    ELSE IF IsInstance(inst) THEN "dump"
    ELSE IF UseDump(db, fr) THEN "load"
    ELSE "populate"

\* Lines 46-60: the branch the constructor takes: persist the instance it
\* was given, restore the pickle, or build.
Branch(inst, fr, db) ==
    IF IsInstance(inst) THEN "dump"
    ELSE IF UseDump(db, fr) THEN "load"
    ELSE "populate"

\* Lines 40-47 and 51: the constructor up to the branch it takes.
FacilityHandler(inst, fr, db) ==
    /\ pc = "idle"
    /\ nBuilds < BuildLimit
    /\ nBuilds' = nBuilds + 1
    /\ facility_instance' = inst
    /\ force_rebuild' = fr
    /\ date_boundaries' = db
    /\ artifactBefore' = artifact
    /\ pc' = Branch(inst, fr, db)
    /\ facility' = IF pc' = "populate"
                   THEN Facility(FacilityBoundaries[1], FacilityBoundaries[2])
                   ELSE inst
    /\ previous' = IF ~IsInstance(inst) /\ fr /\ ~Given(db)
                   THEN previous ELSE NoPrevious
    /\ UNCHANGED << srcVars, artifact, loopVars, attrs, dumped, wrote, exc,
                    countVars, phases, lastPersisted, persistedBy >>

\* pkl.load(f) on the file at the dump path: [exc, fac].  A truncated file
\* does not unpickle.
pkl_load(file) ==
    IF file = Torn THEN [exc |-> "UnpicklingError", fac |-> None]
    ELSE [exc |-> NoExc, fac |-> file]

\* Lines 48-49: restore the pickled Facility.
restore ==
    /\ pc = "load"
    /\ LET r == pkl_load(artifact)
       IN /\ facility' = r.fac
          /\ exc' = r.exc
          /\ pc' = IF r.exc = NoExc THEN "done" ELSE "failed"
    /\ UNCHANGED << srcVars, artifact, argVars, loopVars, attrs, dumped, wrote,
                    nBuilds, countVars, phases, artifactBefore, lastPersisted,
                    previous, persistedBy >>

\* Lines 72-77: add the departments of the document in order, stopping at the
\* first one the registry refuses.  [exc, fac].
RECURSIVE add_departments(_, _)
add_departments(fac, labels) ==
    IF labels = <<>> THEN [exc |-> NoExc, fac |-> fac]
    ELSE LET r == add_department(fac, Head(labels))
         IN IF r.exc # NoExc THEN r ELSE add_departments(r.fac, Tail(labels))

\* Lines 69-77: [exc, fac].  src["departments"] of a document without that
\* key raises KeyError.
populate(fac, src) ==
    IF "departments" \notin DOMAIN src
    THEN [exc |-> "KeyError", fac |-> fac]
    ELSE add_departments(fac, src.departments)

\* Line 52: populate_facility(conf["facility_source_path"]).
populate_facility ==
    /\ pc = "populate"
    /\ layoutReads' = layoutReads + 1
    /\ phases' = Append(phases, "layout")
    /\ LET r == populate(facility, layoutDoc)
       IN /\ facility' = r.fac
          /\ exc' = r.exc
          /\ pc' = IF r.exc = NoExc THEN "parse" ELSE "failed"
    /\ UNCHANGED << srcVars, artifact, argVars, loopVars, attrs, dumped, wrote,
                    nBuilds, recordReads, artifactBefore, lastPersisted,
                    previous, persistedBy >>

\* Lines 95-96: the lower date before the loop.
InitialDateFrom(db) ==
    IF Given(db) THEN strptime(db[1]) ELSE strptime("9999-01-01 00:00:00")

\* Lines 97-98 with the literal of line 96.
InitialDateTo_High(db) ==
    IF Given(db) THEN strptime(db[2]) ELSE strptime("9999-01-01 00:00:00")

\* Lines 97-98: the upper date before the loop.
InitialDateTo(db) ==
    IF Given(db) THEN strptime(db[2]) ELSE strptime("1002-01-01 00:00:00")

\* Lines 53 and 91-98: insert_all_transp_records up to its loop.
insert_all_transp_records ==
    /\ pc = "parse"
    /\ recordReads' = recordReads + 1
    /\ phases' = Append(phases, "ingest")
    /\ res' = parserOut
    /\ idx' = 1
    /\ self_edges_weight' = 0
    /\ date_from' = InitialDateFrom(date_boundaries)
    /\ date_to' = InitialDateTo(date_boundaries)
    /\ visited' = <<>>
    /\ pc' = "loop"
    /\ UNCHANGED << srcVars, artifact, argVars, facility, attrs, dumped, wrote,
                    exc, nBuilds, layoutReads, artifactBefore, lastPersisted,
                    previous, persistedBy >>

\* Lines 106-109 without the test of line 105.
NextDateFrom_Unguarded(db, rec, df) ==
    IF strptime(StripLast4(rec[3])) < df
    THEN strptime(StripLast4(rec[3])) ELSE df

\* Lines 105-109: the lower date after a record.
NextDateFrom(db, rec, df) ==
    IF ~Given(db) /\ strptime(StripLast4(rec[3])) < df
    THEN strptime(StripLast4(rec[3])) ELSE df

\* Lines 110-111 with the comparison of line 108.
NextDateTo_Less(db, rec, dt) ==
    IF ~Given(db) /\ strptime(StripLast4(rec[3])) < dt
    THEN strptime(StripLast4(rec[3])) ELSE dt

\* Lines 105-107 and 110-111: the upper date after a record.
NextDateTo(db, rec, dt) ==
    IF ~Given(db) /\ strptime(StripLast4(rec[3])) > dt
    THEN strptime(StripLast4(rec[3])) ELSE dt

\* Line 114 testing the source alone.
IsDataError_SourceOnly(rec, errors) == rec[1] \in errors

\* Line 114: an endpoint of the record is in the error list.
IsDataError(rec, errors) == rec[1] \in errors \/ rec[2] \in errors

\* Lines 116-117 without the comparison against the end.
OutsideBoundaries_StartOnly(rec, db) ==
    /\ Given(db)
    /\ ~ (strptime(db[1]) <= strptime(StripLast4(rec[3])))

\* Lines 116-117: boundaries are given and the record lies outside them.
OutsideBoundaries(rec, db) ==
    /\ Given(db)
    /\ ~ ( /\ strptime(db[1]) <= strptime(StripLast4(rec[3]))
           /\ strptime(StripLast4(rec[3])) <= strptime(db[2]) )

\* Line 120 with the two endpoints in the other order.
Insert_Swapped(fac, rec) ==
    add_transp_record(fac, Centroid(rec[2]), Centroid(rec[1]), int(rec[4]))

\* Line 120: the call the loop makes for a record that passed both tests.
Insert(fac, rec) ==
    add_transp_record(fac, Centroid(rec[1]), Centroid(rec[2]), int(rec[4]))

\* Lines 121-122 counting the record instead of its weight.
NextSelfEdgesWeight_Count(out, rec, total) ==
    IF out = "SelfEdgesNotSupported" THEN total + 1 ELSE total

\* Lines 121-122: the self edge total after a record.
NextSelfEdgesWeight(out, rec, total) ==
    IF out = "SelfEdgesNotSupported" THEN total + int(rec[4]) ELSE total

\* Lines 119-121 with a bare `except:`.
Propagates_Never(out) == FALSE

\* Lines 119-121: the except clause names SelfEdgesNotSupported alone; what
\* else the registry raises leaves the loop and the constructor.
Propagates(out) ==
    out \notin { NoExc, "error", "outside", "SelfEdgesNotSupported" }

\* Lines 113-122 with the call of line 120 made before the two tests.
Outcome_CallFirst(fac, rec, errors, db) ==
    IF Insert(fac, rec).exc = "SelfEdgesNotSupported"
    THEN "SelfEdgesNotSupported"
    ELSE IF IsDataError(rec, errors) THEN "error"
    ELSE IF OutsideBoundaries(rec, db) THEN "outside"
    ELSE Insert(fac, rec).exc

\* Lines 113-122 without the test of line 114.
Outcome_NoErrorTest(fac, rec, errors, db) ==
    IF OutsideBoundaries(rec, db) THEN "outside"
    ELSE Insert(fac, rec).exc

\* Lines 113-122: what the loop does with a record.
Outcome(fac, rec, errors, db) ==
    IF IsDataError(rec, errors) THEN "error"
    ELSE IF OutsideBoundaries(rec, db) THEN "outside"
    ELSE Insert(fac, rec).exc

\* Lines 101-122: one pass of the loop.
insert_record ==
    /\ pc = "loop"
    /\ idx <= Len(res)
    /\ LET rec == res[idx]
           out == Outcome(facility, rec, errorList, date_boundaries)
       IN /\ date_from' = NextDateFrom(date_boundaries, rec, date_from)
          /\ date_to' = NextDateTo(date_boundaries, rec, date_to)
          /\ visited' = Append(visited, [rec |-> rec, out |-> out])
          /\ facility' = IF out = NoExc THEN Insert(facility, rec).fac
                         ELSE facility
          /\ self_edges_weight' =
                NextSelfEdgesWeight(out, rec, self_edges_weight)
          /\ IF Propagates(out)
             THEN exc' = out /\ pc' = "failed" /\ idx' = idx
             ELSE exc' = exc /\ pc' = pc /\ idx' = idx + 1
    /\ UNCHANGED << srcVars, artifact, argVars, res, attrs, dumped, wrote,
                    nBuilds, countVars, phases, artifactBefore, lastPersisted,
                    previous, persistedBy >>

\* Lines 124 and 55-57: the loop is over; the three results become attributes.
return_records ==
    /\ pc = "loop"
    /\ idx > Len(res)
    /\ attrs' = [self_edges_weight |-> self_edges_weight,
                 date_from |-> strftime(date_from),
                 date_to |-> strftime(date_to)]
    /\ pc' = "dump"
    /\ UNCHANGED << srcVars, artifact, argVars, facility, loopVars, dumped, wrote,
                    exc, nBuilds, countVars, phases, artifactBefore,
                    lastPersisted, previous, persistedBy >>

\* How a dump can end: the pickle is written; open() raises and the file is
\* as it was; pkl.dump raises after open(path, "wb") has truncated the file.
DumpOutcomes == { "written", "open_raised", "dump_raised" }

\* Lines 136-141 returning True from the except clause as well.
dump_AlwaysTrue(fac, file, outcome) ==
    IF outcome = "written" THEN [ret |-> TRUE, file |-> fac]
    ELSE IF outcome = "open_raised" THEN [ret |-> TRUE, file |-> file]
    ELSE [ret |-> TRUE, file |-> Torn]

\* Lines 136-141 with the file opened so that an existing one is kept.
dump_KeepExisting(fac, file, outcome) ==
    IF outcome = "written"
    THEN [ret |-> TRUE, file |-> IF file = Absent THEN fac ELSE file]
    ELSE IF outcome = "open_raised" THEN [ret |-> FALSE, file |-> file]
    ELSE [ret |-> FALSE, file |-> Torn]

\* Lines 136-141: [ret, file].
dump(fac, file, outcome) ==
    IF outcome = "written" THEN [ret |-> TRUE, file |-> fac]
    ELSE IF outcome = "open_raised" THEN [ret |-> FALSE, file |-> file]
    ELSE [ret |-> FALSE, file |-> Torn]

\* Lines 58 and 60: dump_facility(conf["facility_dump_path"]).
dump_facility ==
    /\ pc = "dump"
    /\ phases' = Append(phases, "persist")
    /\ \E outcome \in DumpOutcomes :
         LET r == dump(facility, artifact, outcome)
         IN /\ dumped' = << r.ret >>
            /\ wrote' = outcome
            /\ artifact' = r.file
            /\ lastPersisted' = IF r.ret THEN facility ELSE lastPersisted
            /\ persistedBy' =
                  IF r.ret
                  THEN [supplied |-> IsInstance(facility_instance),
                        date_boundaries |->
                            IF IsInstance(facility_instance) THEN NoBoundaries
                            ELSE date_boundaries,
                        attrs |-> attrs]
                  ELSE persistedBy
    /\ pc' = "done"
    /\ UNCHANGED << srcVars, argVars, facility, loopVars, attrs, exc, nBuilds,
                    countVars, artifactBefore, previous >>

\* Lines 46-47: no instance, force_rebuild=True, no date_boundaries: what
\* get_data asks for.
ForcedBuild ==
    /\ ~IsInstance(facility_instance)
    /\ force_rebuild
    /\ ~Given(date_boundaries)

\* The constructor has returned or raised: the handler is dropped and the
\* next request may construct another.  What a forced build ended with is
\* kept for the construction that follows it, should that be a forced build
\* as well.
release ==
    /\ pc \in { "done", "failed" }
    /\ pc' = "idle"
    /\ facility_instance' = None /\ force_rebuild' = FALSE
    /\ date_boundaries' = NoBoundaries
    /\ facility' = None
    /\ res' = <<>> /\ idx' = 1
    /\ self_edges_weight' = 0 /\ date_from' = 0 /\ date_to' = 0
    /\ attrs' = Unset
    /\ dumped' = <<>>
    /\ wrote' = "nothing"
    /\ exc' = NoExc
    /\ layoutReads' = 0 /\ recordReads' = 0
    /\ phases' = <<>>
    /\ visited' = <<>>
    /\ artifactBefore' = artifact
    /\ previous' = IF ForcedBuild
                   THEN [facility |-> facility, attrs |-> attrs, exc |-> exc]
                   ELSE NoPrevious
    /\ UNCHANGED << srcVars, artifact, nBuilds, lastPersisted, persistedBy >>

Next ==
    \/ \E inst \in FacilityInstances, fr \in BOOLEAN, db \in DateBoundaries :
          FacilityHandler(inst, fr, db)
    \/ restore
    \/ populate_facility
    \/ insert_all_transp_records
    \/ insert_record
    \/ return_records
    \/ dump_facility
    \/ release

Spec == Init /\ [][Next]_vars


\* ------------------------------------------------------------------ claims

\* The file holds the pickle of a Facility.
IsPickle(file) == file \notin { Absent, Torn }

\* A construction is under way or over, and was given a Facility.
SuppliedCase == pc # "idle" /\ IsInstance(facility_instance)

\* ... was given none, with nothing asking for a build and a pickle on disk.
CacheCase ==
    /\ pc # "idle"
    /\ ~IsInstance(facility_instance)
    /\ ~force_rebuild
    /\ ~Given(date_boundaries)
    /\ IsPickle(artifactBefore)

\* ... was given none, and a build was asked for or no file was on disk.
RebuildCase ==
    /\ pc # "idle"
    /\ ~IsInstance(facility_instance)
    /\ (force_rebuild \/ Given(date_boundaries) \/ artifactBefore = Absent)

\* The datetime of a record.
TimeOf(rec) == strptime(StripLast4(rec[3]))

\* The record has no endpoint in the error list and, under boundaries, lies
\* within them.
Kept(rec, db) ==
    /\ rec[1] \notin errorList
    /\ rec[2] \notin errorList
    /\ Given(db) =>
         strptime(db[1]) <= TimeOf(rec) /\ TimeOf(rec) <= strptime(db[2])

RECURSIVE TotalWeight(_)
TotalWeight(recs) ==
    IF recs = <<>> THEN 0 ELSE int(Head(recs)[4]) + TotalWeight(Tail(recs))

\* The kept records of the parser output from a to b.
Between(a, b, db) ==
    SelectSeq(parserOut, LAMBDA r : r[1] = a /\ r[2] = b /\ Kept(r, db))

Labels == { "A", "B", "Z" }

\* The Facility the sources describe under the boundaries db.
FreshFacility(db) ==
    LET linked == { q \in Labels \X Labels :
                      q[1] # q[2] /\ Between(q[1], q[2], db) # <<>> }
        key(q) == << Centroid(q[1]), Centroid(q[2]) >>
    IN [low |-> FacilityBoundaries[1],
        high |-> FacilityBoundaries[2],
        departments |-> layoutDoc.departments,
        edges |-> [p \in { key(q) : q \in linked } |->
                     LET q == CHOOSE q \in linked : key(q) = p
                     IN TotalWeight(Between(q[1], q[2], db))]]

IsPrefix(s, t) == Len(s) <= Len(t) /\ s = SubSeq(t, 1, Len(s))

C2_RebuildAndOverwrite ==
    RebuildCase =>
        /\ IsPrefix(phases, << "layout", "ingest", "persist" >>)
        /\ layoutReads = (IF Len(phases) >= 1 THEN 1 ELSE 0)
        /\ recordReads = (IF Len(phases) >= 2 THEN 1 ELSE 0)
        /\ pc = "failed" => exc \in { "KeyError", "DuplicateLabel", "UnknownLabel" }
        /\ pc = "done" =>
             /\ phases = << "layout", "ingest", "persist" >>
             /\ facility = FreshFacility(date_boundaries)
             /\ dumped = << TRUE >> => artifact = facility

C2_Witness ==
    /\ RebuildCase
    /\ pc = "done"
    /\ force_rebuild
    /\ IsPickle(artifactBefore)
    /\ artifactBefore # facility
    /\ DOMAIN artifactBefore.edges # {}
    /\ DOMAIN facility.edges # {}
    /\ dumped = << TRUE >>
    /\ artifact = facility

\* C3: a construction given a Facility, whatever force_rebuild, the date
\* boundaries and the dump path hold, reads no source, keeps the Facility as
\* it was given, and its one phase is the dump of exactly that Facility.
C3_PreSupplied ==
    SuppliedCase =>
        /\ pc \in { "dump", "done" }
        /\ layoutReads = 0 /\ recordReads = 0
        /\ facility = facility_instance
        /\ pc = "dump" => phases = <<>>
        /\ pc = "done" =>
             /\ phases = << "persist" >>
             /\ wrote = "written" => artifact = facility_instance

C3_Witness ==
    /\ SuppliedCase
    /\ pc = "done"
    /\ force_rebuild
    /\ Given(date_boundaries)
    /\ IsPickle(artifactBefore)
    /\ artifactBefore # facility_instance
    /\ artifact = facility_instance

\* The loop of a build is running or has ended without an exception.
IngestCase ==
    /\ pc \in { "loop", "dump", "done" }
    /\ ~IsInstance(facility_instance)
    /\ Len(phases) >= 2

\* The records from a to b the loop has handed to add_transp_record so far.
Passed(a, b) ==
    SelectSeq(visited, LAMBDA v : /\ v.rec[1] = a /\ v.rec[2] = b
                                  /\ v.out \notin { "error", "outside" })

RECURSIVE VisitedWeight(_)
VisitedWeight(entries) ==
    IF entries = <<>> THEN 0
    ELSE int(Head(entries).rec[4]) + VisitedWeight(Tail(entries))

EdgeKey(a, b) == << Centroid(a), Centroid(b) >>

EdgeWeight(fac, a, b) ==
    IF EdgeKey(a, b) \in DOMAIN fac.edges THEN fac.edges[EdgeKey(a, b)] ELSE 0

\* C4: while and after the loop runs, for every ordered pair of distinct
\* labels the Facility has an edge exactly when some record of that pair was
\* handed to add_transp_record, and the weight of the edge is the sum of the
\* weights of all those records; there is no other edge.
C4_EdgeAccumulation ==
    IngestCase =>
        /\ \A a \in Labels, b \in Labels :
             a # b =>
               /\ EdgeKey(a, b) \in DOMAIN facility.edges <=> Passed(a, b) # <<>>
               /\ EdgeWeight(facility, a, b) = VisitedWeight(Passed(a, b))
        /\ DOMAIN facility.edges \subseteq
             { EdgeKey(a, b) : a \in Labels, b \in Labels }

C4_Witness ==
    /\ IngestCase
    /\ pc = "done"
    /\ Len(Passed("A", "B")) = 2
    /\ Passed("A", "B")[1].rec[4] # Passed("A", "B")[2].rec[4]
    /\ EdgeWeight(facility, "A", "B") = 3

\* The loop is about to visit a record.
AtRecord == pc = "loop" /\ idx <= Len(res)

\* C5 as stated: every record with source = destination leaves the edge map
\* alone, does not end the construction, and adds exactly its weight to the
\* self edge total.
C5_AsStated ==
    [][ (AtRecord /\ res[idx][1] = res[idx][2]) =>
           /\ facility' = facility
           /\ pc' = "loop"
           /\ self_edges_weight' = self_edges_weight + int(res[idx][4]) ]_vars

\* C5, amended: every record with source = destination leaves the edge map
\* alone and does not end the construction; it adds exactly its weight to the
\* self edge total when neither test removes it (its label is not in the
\* error list and, under boundaries, its timestamp lies within them), and
\* leaves the total as it was when one does.
C5_SelfEdgePolicy ==
    [][ (AtRecord /\ res[idx][1] = res[idx][2]) =>
           /\ facility' = facility
           /\ pc' = "loop"
           /\ self_edges_weight' =
                IF Kept(res[idx], date_boundaries)
                THEN self_edges_weight + int(res[idx][4])
                ELSE self_edges_weight ]_vars

C5_Witness ==
    /\ pc = "loop"
    /\ Len(visited) = 2
    /\ visited[1].rec[1] = visited[1].rec[2]
    /\ visited[2].rec[1] = visited[2].rec[2]
    /\ Kept(visited[1].rec, date_boundaries)
    /\ ~Kept(visited[2].rec, date_boundaries)
    /\ self_edges_weight = int(visited[1].rec[4])
    /\ facility.edges = NoEdges

Earliest(recs) ==
    CHOOSE t \in { TimeOf(recs[i]) : i \in DOMAIN recs } :
        \A i \in DOMAIN recs : t <= TimeOf(recs[i])

Latest(recs) ==
    CHOOSE t \in { TimeOf(recs[i]) : i \in DOMAIN recs } :
        \A i \in DOMAIN recs : t >= TimeOf(recs[i])

\* C7: when the loop of a construction without boundaries has returned and
\* the parser output is not empty, the returned lower date is the earliest
\* and the returned upper date the latest timestamp of all parsed records,
\* whatever the loop did with each and in whatever order they came.
C7_ObservedDateSpan ==
    (attrs # Unset /\ ~Given(date_boundaries) /\ parserOut # <<>>) =>
        /\ attrs.date_from = strftime(Earliest(parserOut))
        /\ attrs.date_to = strftime(Latest(parserOut))

C7_Witness ==
    /\ attrs # Unset
    /\ ~Given(date_boundaries)
    /\ Len(visited) = 2
    /\ visited[1].out = "error"
    /\ visited[2].out = "SelfEdgesNotSupported"
    /\ TimeOf(visited[1].rec) > TimeOf(visited[2].rec)
    /\ attrs.date_from = "2015-05-24 00:00:00"
    /\ attrs.date_to = "2015-05-25 00:00:00"

\* C8: under boundaries (from, to), a record the loop hands to
\* add_transp_record or adds to the self edge total has from <= t <= to, and
\* a record with t < from or t > to changes neither the Facility nor the
\* self edge total.
C8_DateFilter ==
    [][ (AtRecord /\ Given(date_boundaries)) =>
           LET t == TimeOf(res[idx])
               from == strptime(date_boundaries[1])
               to == strptime(date_boundaries[2])
           IN /\ visited'[Len(visited')].out \notin { "error", "outside" } =>
                    from <= t /\ t <= to
              /\ (t < from \/ t > to) =>
                    /\ facility' = facility
                    /\ self_edges_weight' = self_edges_weight ]_vars

C8_Witness ==
    /\ pc = "loop"
    /\ Given(date_boundaries)
    /\ Len(visited) = 2
    /\ TimeOf(visited[1].rec) > strptime(date_boundaries[2])
    /\ visited[1].out = "outside"
    /\ TimeOf(visited[2].rec) = strptime(date_boundaries[1])
    /\ TimeOf(visited[2].rec) = strptime(date_boundaries[2])
    /\ visited[2].out = NoExc
    /\ EdgeWeight(facility, visited[2].rec[1], visited[2].rec[2])
         = int(visited[2].rec[4])

\* The layout document is one populate_facility cannot get through.
BadLayout ==
    \/ "departments" \notin DOMAIN layoutDoc
    \/ \E i, j \in DOMAIN layoutDoc.departments :
          i # j /\ layoutDoc.departments[i] = layoutDoc.departments[j]

\* The record is handed to the registry and names a label that is no
\* department.
UnknownEndpoint(rec) ==
    /\ Kept(rec, date_boundaries)
    /\ rec[1] # rec[2]
    /\ \E k \in 1 .. 2 :
          \A i \in DOMAIN facility.departments : facility.departments[i] # rec[k]

\* C9: once the layout phase has met a document it cannot get through, or
\* the loop a record the registry refuses for another reason than a self
\* edge, the construction has failed; and a failed construction has made no
\* dump and left the dump path as it was when it started.
C9_FatalErrors ==
    /\ (pc # "idle" /\ phases # <<>> /\ phases[1] = "layout" /\ BadLayout) =>
          pc = "failed" /\ exc \in { "KeyError", "DuplicateLabel" }
    /\ (\E i \in DOMAIN visited : UnknownEndpoint(visited[i].rec)) =>
          pc = "failed" /\ exc = "UnknownLabel"
    /\ pc = "failed" =>
          /\ exc # NoExc
          /\ \A i \in DOMAIN phases : phases[i] # "persist"
          /\ dumped = <<>> /\ wrote = "nothing"
          /\ artifact = artifactBefore

C9_Witness ==
    /\ pc = "failed"
    /\ exc = "UnknownLabel"
    /\ DOMAIN facility.edges # {}
    /\ IsPickle(artifactBefore)
    /\ artifact = artifactBefore

\* C10: a dump never ends the construction with an exception; the
\* construction completes holding the Facility it built or was given,
\* whichever way the dump ended; dump_facility returns True when the pickle
\* was written, and then the file is that pickle, and False when open or
\* pkl.dump raised.
C10_PersistFailureAbsorbed ==
    /\ pc = "failed" => wrote = "nothing"
    /\ (pc # "idle" /\ wrote # "nothing") =>
          /\ pc = "done"
          /\ exc = NoExc
          /\ dumped = << wrote = "written" >>
          /\ wrote = "written" => artifact = facility
          /\ facility = IF IsInstance(facility_instance) THEN facility_instance
                        ELSE FreshFacility(date_boundaries)

C10_Witness ==
    /\ pc = "done"
    /\ wrote = "dump_raised"
    /\ dumped = << FALSE >>
    /\ artifact = Torn
    /\ ~IsInstance(facility_instance)
    /\ DOMAIN facility.edges # {}

\* C11: when a construction with no instance, force_rebuild and no boundaries
\* follows another such construction over the same sources, it never restores
\* the pickle, and it ends as the first did: the same exception or none, the
\* same Facility (departments and edge weights), the same self edge total and
\* the same two dates, whatever the first left at the dump path.
C11_BuildIdempotence ==
    (pc # "idle" /\ ForcedBuild) =>
        /\ pc # "load"
        /\ (pc \in { "done", "failed" } /\ previous # NoPrevious) =>
              /\ exc = previous.exc
              /\ facility = previous.facility
              /\ attrs = previous.attrs

C11_Witness ==
    /\ pc = "done"
    /\ ForcedBuild
    /\ previous # NoPrevious
    /\ IsPickle(artifactBefore)
    /\ artifactBefore = previous.facility
    /\ facility = previous.facility
    /\ DOMAIN facility.edges # {}
    /\ attrs = previous.attrs
    /\ attrs.self_edges_weight > 0

\* C12 as stated: when a construction has restored the pickle, the self edge
\* total and the two dates are set on the handler and are the ones the
\* construction that wrote the pickle computed.
C12_AsStated ==
    (CacheCase /\ pc = "done" /\ ~persistedBy.supplied) =>
        /\ attrs # Unset
        /\ attrs = persistedBy.attrs

\* The sources are those of the scenario.
InScenario == << layoutDoc, parserOut, errorList >> = Scenario

\* C13: a record with an endpoint in the error list is dropped by the error
\* list test, whatever its timestamp and whether or not its endpoints are
\* departments: neither the date test nor add_transp_record sees it, and no
\* construction ends with UnknownLabel on such a record.  A record the date
\* test drops has passed the error list test, and a record handed to
\* add_transp_record has passed both.  Over the scenario a build never fails,
\* and without boundaries it ends with the one edge A to B of weight 8, a
\* self edge total of 10 and the fourth record dropped by the error list.
C13_ExclusionOrder ==
    /\ \A i \in DOMAIN visited :
          LET rec == visited[i].rec
              out == visited[i].out
              listed == rec[1] \in errorList \/ rec[2] \in errorList
              within == Given(date_boundaries) =>
                          /\ strptime(date_boundaries[1]) <= TimeOf(rec)
                          /\ TimeOf(rec) <= strptime(date_boundaries[2])
          IN /\ listed => out = "error"
             /\ out = "outside" => ~listed /\ ~within
             /\ out \notin { "error", "outside" } => ~listed /\ within
    /\ (pc = "failed" /\ exc = "UnknownLabel") =>
          /\ res[idx][1] \notin errorList
          /\ res[idx][2] \notin errorList
    /\ (InScenario /\ RebuildCase) =>
          /\ pc # "failed"
          /\ (pc = "done" /\ ~Given(date_boundaries)) =>
                /\ DOMAIN facility.edges = { EdgeKey("A", "B") }
                /\ EdgeWeight(facility, "A", "B") = 8
                /\ attrs.self_edges_weight = 10
                /\ visited[4].out = "error"

C13_Witness ==
    /\ InScenario
    /\ RebuildCase
    /\ pc = "done"
    /\ ~Given(date_boundaries)
    /\ Len(visited) = 4
    /\ visited[4].rec[1] = "Z"
    /\ visited[4].out = "error"
    /\ EdgeWeight(facility, "A", "B") = 8
    /\ attrs.self_edges_weight = 10

\* The string s spells the datetime d, zero-padded or not.
Spells(s, d) == Canonical[d] = s \/ Unpadded[d] = s

\* C14 as stated: under boundaries the two returned dates are the two
\* strings that were supplied.
C14_AsStated ==
    (attrs # Unset /\ Given(date_boundaries)) =>
        /\ attrs.date_from = date_boundaries[1]
        /\ attrs.date_to = date_boundaries[2]

\* C14, amended: under boundaries no record changes the two dates, which are
\* the supplied ones from before the first record to the return, whatever the
\* parser output holds; the two returned strings spell the supplied datetimes
\* zero-padded, so they are the supplied strings exactly when those were
\* zero-padded.
C14_BoundaryEcho ==
    Given(date_boundaries) =>
        /\ pc = "loop" =>
              /\ Spells(date_boundaries[1], date_from)
              /\ Spells(date_boundaries[2], date_to)
        /\ attrs # Unset =>
              /\ \E d \in DateTimes : /\ Spells(date_boundaries[1], d)
                                       /\ attrs.date_from = Canonical[d]
              /\ \E d \in DateTimes : /\ Spells(date_boundaries[2], d)
                                       /\ attrs.date_to = Canonical[d]
              /\ attrs.date_from = date_boundaries[1]
                    <=> \E d \in DateTimes : date_boundaries[1] = Canonical[d]
              /\ attrs.date_to = date_boundaries[2]
                    <=> \E d \in DateTimes : date_boundaries[2] = Canonical[d]

C14_Witness ==
    /\ attrs # Unset
    /\ Given(date_boundaries)
    /\ Len(visited) = 2
    /\ TimeOf(visited[1].rec) < strptime(date_boundaries[1])
    /\ visited[1].out = "outside"
    /\ visited[2].out = NoExc
    /\ attrs.date_from # date_boundaries[1]
    /\ strptime(attrs.date_from) = strptime(date_boundaries[1])
    /\ strptime(attrs.date_to) = strptime(date_boundaries[2])

\* A construction given no Facility, with force_rebuild false and no
\* boundaries, has ended after some dump had succeeded.
LaterCachedBuild ==
    /\ pc \in { "done", "failed" }
    /\ ~IsInstance(facility_instance)
    /\ ~force_rebuild
    /\ ~Given(date_boundaries)
    /\ lastPersisted # None

\* C15 as stated: a construction given no Facility but boundaries never
\* restores the pickle, and when its dump succeeds the file is the Facility of
\* the records within the boundaries; and a later construction with
\* force_rebuild false and no boundaries returns the Facility of the last
\* dump that succeeded, which is that of the records within the boundaries of
\* the construction that made that dump.
C15_AsStated ==
    /\ (pc # "idle" /\ ~IsInstance(facility_instance)
           /\ Given(date_boundaries)) =>
          /\ pc # "load"
          /\ (pc = "done" /\ dumped = << TRUE >>) =>
                artifact = FreshFacility(date_boundaries)
    /\ LaterCachedBuild =>
          /\ pc = "done"
          /\ facility = lastPersisted
          /\ ~persistedBy.supplied =>
                facility = FreshFacility(persistedBy.date_boundaries)

\* The records of recs with source = destination that neither test removes.
KeptSelfEdges(recs, db) ==
    SelectSeq(recs, LAMBDA r : r[1] = r[2] /\ Kept(r, db))

\* C16: while the loop runs the self edge total is the sum of the weights of
\* the records visited so far that have source = destination, no endpoint in
\* the error list and, under boundaries, a timestamp within them; the total
\* the loop returns is that sum over the whole parser output.
C16_SelfEdgeTotal ==
    /\ pc = "loop" =>
          self_edges_weight =
              TotalWeight(KeptSelfEdges(SubSeq(res, 1, idx - 1),
                                        date_boundaries))
    /\ attrs # Unset =>
          attrs.self_edges_weight =
              TotalWeight(KeptSelfEdges(parserOut, date_boundaries))

C16_Witness ==
    /\ attrs # Unset
    /\ Given(date_boundaries)
    /\ Len(parserOut) = 2
    /\ parserOut[1][1] = parserOut[1][2]
    /\ parserOut[2][1] = parserOut[2][2]
    /\ visited[1].out = "SelfEdgesNotSupported"
    /\ visited[2].out = "outside"
    /\ attrs.self_edges_weight = int(parserOut[1][4])

\* C17: when the loop of a construction without boundaries has returned, the
\* returned lower date is no later than the returned upper date exactly when
\* the parser output holds a record; over an empty parser output the loop
\* raises nothing, the construction goes on to its dump, and the returned
\* dates are the two literals, the lower one the later.
C17_EmptyInputSentinels ==
    /\ (attrs # Unset /\ ~Given(date_boundaries)) =>
          /\ strptime(attrs.date_from) <= strptime(attrs.date_to)
                <=> parserOut # <<>>
          /\ parserOut = <<>> =>
                /\ attrs.date_from = "9999-01-01 00:00:00"
                /\ attrs.date_to = "1002-01-01 00:00:00"
                /\ strptime(attrs.date_from) > strptime(attrs.date_to)
    /\ (parserOut = <<>> /\ Len(phases) >= 2) =>
          /\ pc \in { "loop", "dump", "done" }
          /\ exc = NoExc
          /\ pc = "done" => attrs # Unset

C17_Witness ==
    /\ pc = "done"
    /\ ~IsInstance(facility_instance)
    /\ ~Given(date_boundaries)
    /\ parserOut = <<>>
    /\ attrs # Unset
    /\ attrs.date_from = "9999-01-01 00:00:00"
    /\ attrs.date_to = "1002-01-01 00:00:00"
    /\ facility.edges = NoEdges

=============================================================================
